---- MODULE Spec2Model ----
(***************************************************************************)
(* A model of the IIR filter design orchestrator of sci-rs                 *)
(* (sci-rs/src/signal/filter/design/iirfilter.rs): iirfilter_dyn and its   *)
(* wrappers cheby1_dyn and cheby2_dyn.                                     *)
(*                                                                         *)
(* One call is followed from its entry to its end.  The end is either a    *)
(* returned DigitalFilter (pc = "returned") or a panic (pc = "panicked").  *)
(* Every block of iirfilter_dyn is one action, in the order of the source. *)
(*                                                                         *)
(* Values of the float type F are finite rationals [n |-> num, d |-> den]  *)
(* with d > 0, compared by cross-multiplication.  An Option is a sequence: *)
(* <<>> is None and <<v>> is Some(v).                                      *)
(***************************************************************************)
EXTENDS Integers, Sequences, FiniteSets, TLC

VARIABLES
    pc,        \* position of the call
    entry,     \* the public function that was called
    args,      \* the arguments iirfilter_dyn received
    wn,        \* the local `let mut wn` (normalised in place by fs)
    fsRef,     \* the local `fs` of line 130 (the reference rate of the bilinear step)
    warped,    \* the local `warped`
    zpk,       \* the local `zpk`, rebound by each stage
    trace,     \* the pipeline stages that ran, in order
    result,    \* the returned DigitalFilter
    panicMsg   \* the message of the panic that ended the call

vars == <<pc, entry, args, wn, fsRef, warped, zpk, trace, result, panicMsg>>

----------------------------------------------------------------------------
(* Bounds of the input space *)

MaxOrder == 1
MaxWnLen == 3
MaxWnNum == 3

(* Option<T> *)
None == <<>>
Some(v) == <<v>>
IsNone(o) == o = <<>>
IsSome(o) == o # <<>>
Unwrap(o) == o[1]
UnwrapOr(o, dflt) == IF o = <<>> THEN dflt ELSE o[1]
OptionOf(S) == {None} \cup {Some(v) : v \in S}

(* F: finite rationals *)
Rat(num, den) == [n |-> num, d |-> den]
Zero == Rat(0, 1)
One == Rat(1, 1)
Two == Rat(2, 1)
Le(a, b) == a.n * b.d <= b.n * a.d
Lt(a, b) == a.n * b.d < b.n * a.d
Ge(a, b) == Le(b, a)
Gt(a, b) == Lt(b, a)
Mul(a, b) == Rat(a.n * b.n, a.d * b.d)
\* a / b for b > 0 (the sign stays in the numerator)
Div(a, b) == Rat(a.n * b.d, a.d * b.n)

\* critical frequencies i/3: 0, 1/3, 2/3, 1, ...
WnVals == {Rat(i, 3) : i \in 0..MaxWnNum}
\* ripple and attenuation in dB: one negative value and the boundary value 0
RippleVals == {Rat(-1, 1), Rat(0, 1)}
\* sample rates: with fs = 5/3 the normalised frequencies are 0, 2/5, 4/5, 6/5, ...
FsVals == {Rat(5, 3)}
Orders == 1..MaxOrder
SeqsUpTo(S, k) == UNION {[1..m -> S] : m \in 0..k}
\* wn: every sequence of at most two frequencies, and for each longer length
\* up to MaxWnLen the constant sequences (line 64 panics on the length of a
\* longer sequence before any element is read)
WnSeqs == SeqsUpTo(WnVals, 2) \cup {[i \in 1..m |-> v] : m \in 3..MaxWnLen, v \in WnVals}

FilterBandType == {"Lowpass", "Highpass", "Bandpass", "Bandstop"}
FilterType == {"Butterworth", "ChebyshevI", "ChebyshevII", "CauerElliptic", "BesselThomson"}
FilterOutputType == {"Zpk", "Ba", "Sos"}

----------------------------------------------------------------------------
(* Outcomes of a block: a panic message, "" when the block falls through *)

Ok == ""
FirstPanic(msgs) ==
    IF \E i \in DOMAIN msgs : msgs[i] # Ok
    THEN msgs[CHOOSE i \in DOMAIN msgs :
                 /\ msgs[i] # Ok
                 /\ \A j \in DOMAIN msgs : j < i => msgs[j] = Ok]
    ELSE Ok

(* iirfilter_dyn, lines 61-96: argument validation, in source order *)

AnalogOf(analog) == UnwrapOr(analog, FALSE)

CheckWnLen(w) ==
    IF Len(w) > 2 THEN "Wn may be of len 1 or 2" ELSE Ok

\* mutation: the fs/analog conflict is not checked
CheckFsAnalog_dropped(fs, analog) == Ok
CheckFsAnalog(fs, analog) ==
    IF IsSome(fs) /\ analog THEN "fs cannot be specified for an analog filter" ELSE Ok

NormalizeWn(w, fs) ==
    IF IsSome(fs)
    THEN [i \in DOMAIN w |-> Div(Mul(Two, w[i]), Unwrap(fs))]
    ELSE w

\* mutation: < in place of <=
CheckWnPositive_strict(w) ==
    IF \E i \in DOMAIN w : Lt(w[i], Zero)
    THEN "filter critical frequencies must be greater than 0" ELSE Ok
CheckWnPositive(w) ==
    IF \E i \in DOMAIN w : Le(w[i], Zero)
    THEN "filter critical frequencies must be greater than 0" ELSE Ok

\* mutation: the order of the two frequencies is not checked
CheckWnOrder_dropped(w) == Ok
CheckWnOrder(w) ==
    IF Len(w) > 1 /\ Ge(w[1], w[2]) THEN "Wn[0] must be less than Wn[1]" ELSE Ok

CheckRp(rp) ==
    IF IsSome(rp) /\ Lt(Unwrap(rp), Zero)
    THEN "passband ripple (rp) must be positive" ELSE Ok

\* mutation: rs is not checked
CheckRs_dropped(rs) == Ok
CheckRs(rs) ==
    IF IsSome(rs) /\ Lt(Unwrap(rs), Zero)
    THEN "stopband attenuation (rs) must be positive" ELSE Ok

\* The first check that fires decides; a later check is not evaluated (the
\* length check guards the indexing of CheckWnOrder).
Validate(a) ==
    LET analog == AnalogOf(a.analog)
        w == NormalizeWn(a.wn, a.fs)
        len == CheckWnLen(a.wn)
        fsa == CheckFsAnalog(a.fs, analog)
    IN  IF len # Ok THEN [panic |-> len, wn |-> a.wn]
        ELSE IF fsa # Ok THEN [panic |-> fsa, wn |-> a.wn]
        ELSE [panic |-> FirstPanic(<<CheckWnPositive(w), CheckWnOrder(w),
                                     CheckRp(a.rp), CheckRs(a.rs)>>),
              wn |-> w]

----------------------------------------------------------------------------
(* Analog lowpass prototypes, lines 221-441.  A root is kept as the term    *)
(* the code computes it from: the generating formula and the integer index  *)
(* m of the range it is mapped over.                                        *)

\* (lo..hi).step_by(step) as a sequence: lo, lo+step, ... below hi
StepBy(lo, hi, step) ==
    IF hi <= lo THEN <<>>
    ELSE [i \in 1..((hi - lo + step - 1) \div step) |-> lo + (i - 1) * step]

Zpk(z, p, k) == [z |-> z, p |-> p, k |-> k]

\* A pole is -exp(c) for c = Complex::new(0, pi*m/(2N)): re is the real part
\* of c (the logarithm of the magnitude), m/(2N) its imaginary part over pi.
\* mutation: the index range starts one lower
buttap_dyn_shifted(order) ==
    LET pole(m) == [f |-> "-exp(i*pi*m/(2N))", re |-> 0, m |-> m, N |-> order]
        ms == StepBy(-order, order, 2)
    IN  Zpk(<<>>, [i \in DOMAIN ms |-> pole(ms[i])], [f |-> "one"])
buttap_dyn(order) ==
    LET pole(m) == [f |-> "-exp(i*pi*m/(2N))", re |-> 0, m |-> m, N |-> order]
        ms == StepBy(-order + 1, order, 2)
    IN  Zpk(<<>>, [i \in DOMAIN ms |-> pole(ms[i])], [f |-> "one"])

\* mutation: the index range stops one step early
cheb1ap_dyn_short(n, rp) ==
    IF n = 0
    THEN Zpk(<<>>, <<>>, [f |-> "10^(-rp/20)", rp |-> rp])
    ELSE LET pole(m) == [f |-> "-sinh(mu+i*pi*m/(2N))", m |-> m, N |-> n, rp |-> rp]
             ms == StepBy(-n + 1, n - 1, 2)
         IN  Zpk(<<>>, [i \in DOMAIN ms |-> pole(ms[i])],
                 [f |-> "re(prod(-p))", N |-> n, rp |-> rp, evenNorm |-> (n % 2 = 0)])
cheb1ap_dyn(n, rp) ==
    IF n = 0
    THEN Zpk(<<>>, <<>>, [f |-> "10^(-rp/20)", rp |-> rp])
    ELSE LET pole(m) == [f |-> "-sinh(mu+i*pi*m/(2N))", m |-> m, N |-> n, rp |-> rp]
             ms == StepBy(-n + 1, n, 2)
         IN  Zpk(<<>>, [i \in DOMAIN ms |-> pole(ms[i])],
                 [f |-> "re(prod(-p))", N |-> n, rp |-> rp, evenNorm |-> (n % 2 = 0)])

\* mutation: the zeros are computed from every index, 0 included
cheb2ap_dyn_sinzero(n, rs) ==
    IF n = 0
    THEN Zpk(<<>>, <<>>, [f |-> "one"])
    ELSE LET ms == StepBy(-n + 1, n, 2)
             zero(m) == [f |-> "-conj(i/sin(m*pi/(2N)))", m |-> m, N |-> n]
             pole(m) == [f |-> "1/(sinh(mu)*re+i*cosh(mu)*im)(-exp(i*pi*m/(2N)))",
                         m |-> m, N |-> n, rs |-> rs]
         IN  Zpk([i \in DOMAIN ms |-> zero(ms[i])], [i \in DOMAIN ms |-> pole(ms[i])],
                 [f |-> "re(prod(-p)/prod(-z))", N |-> n, rs |-> rs])
\* mutation: order 0 is not treated apart
cheb2ap_dyn_general(n, rs) ==
    LET ms == IF n % 2 = 1
              THEN StepBy(-n + 1, 0, 2) \o StepBy(2, n, 2)
              ELSE StepBy(-n + 1, n, 2) \o StepBy(0, 0, 2)
        zero(m) == [f |-> "-conj(i/sin(m*pi/(2N)))", m |-> m, N |-> n]
        pole(m) == [f |-> "1/(sinh(mu)*re+i*cosh(mu)*im)(-exp(i*pi*m/(2N)))",
                    m |-> m, N |-> n, rs |-> rs]
        ps == StepBy(-n + 1, n, 2)
    IN  Zpk([i \in DOMAIN ms |-> zero(ms[i])], [i \in DOMAIN ps |-> pole(ps[i])],
            [f |-> "re(prod(-p)/prod(-z))", N |-> n, rs |-> rs])
cheb2ap_dyn(n, rs) ==
    IF n = 0
    THEN Zpk(<<>>, <<>>, [f |-> "one"])
    ELSE LET ms == IF n % 2 = 1
                   THEN StepBy(-n + 1, 0, 2) \o StepBy(2, n, 2)
                   ELSE StepBy(-n + 1, n, 2) \o StepBy(0, 0, 2)
             zero(m) == [f |-> "-conj(i/sin(m*pi/(2N)))", m |-> m, N |-> n]
             pole(m) == [f |-> "1/(sinh(mu)*re+i*cosh(mu)*im)(-exp(i*pi*m/(2N)))",
                         m |-> m, N |-> n, rs |-> rs]
             ps == StepBy(-n + 1, n, 2)
         IN  Zpk([i \in DOMAIN ms |-> zero(ms[i])], [i \in DOMAIN ps |-> pole(ps[i])],
                 [f |-> "re(prod(-p)/prod(-z))", N |-> n, rs |-> rs])

(* iirfilter_dyn, lines 98-127: the prototype selected by ftype *)

NoZpk == Zpk(<<>>, <<>>, [f |-> "none"])

\* mutation: a missing rp is taken as 0 dB
ProtoChebyshevI_defaulted(order, rp) ==
    [panic |-> Ok, zpk |-> cheb1ap_dyn(order, UnwrapOr(rp, Zero))]
\* lines 102-107
ProtoChebyshevI(order, rp) ==
    IF IsNone(rp)
    THEN [panic |-> "passband ripple (rp) must be provided to design a Chebyshev I filter",
          zpk |-> NoZpk]
    ELSE [panic |-> Ok, zpk |-> cheb1ap_dyn(order, Unwrap(rp))]

\* lines 108-115: the guard reads rp, the prototype unwraps rs
ProtoChebyshevII(order, rp, rs) ==
    IF IsNone(rp)
    THEN [panic |-> "stopband attenuation (rs) must be provided to design an Chebyshev II filter.",
          zpk |-> NoZpk]
    ELSE IF IsNone(rs)
    THEN [panic |-> "called Option::unwrap() on a None value", zpk |-> NoZpk]
    ELSE [panic |-> Ok, zpk |-> cheb2ap_dyn(order, Unwrap(rs))]

\* lines 116-122: todo!()
ProtoCauerElliptic(order, rp, rs) ==
    IF IsNone(rs) \/ IsNone(rp)
    THEN [panic |-> "Both rp and rs must be provided to design an elliptic filter.",
          zpk |-> NoZpk]
    ELSE [panic |-> "not yet implemented", zpk |-> NoZpk]

\* lines 123-126: todo!(), the norm of the variant is not read
\* mutation: the unimplemented arm falls back to the Butterworth prototype
ProtoBesselThomson_fallback(order) == [panic |-> Ok, zpk |-> buttap_dyn(order)]
ProtoBesselThomson(order) == [panic |-> "not yet implemented", zpk |-> NoZpk]

SelectPrototype(ftype, order, rp, rs) ==
    LET ft == UnwrapOr(ftype, "Butterworth")
    IN  CASE ft = "Butterworth" -> [panic |-> Ok, zpk |-> buttap_dyn(order)]
          [] ft = "ChebyshevI" -> ProtoChebyshevI(order, rp)
          [] ft = "ChebyshevII" -> ProtoChebyshevII(order, rp, rs)
          [] ft = "CauerElliptic" -> ProtoCauerElliptic(order, rp, rs)
          [] ft = "BesselThomson" -> ProtoBesselThomson(order)

(* iirfilter_dyn, lines 129-149: pre-warping for a digital design *)

\* mutation: > in place of >= (the Nyquist frequency itself is accepted)
OutsideNyquist_open(w) ==
    \E i \in DOMAIN w : Le(w[i], Zero) \/ Gt(w[i], One)
\* line 131
OutsideNyquist(w) ==
    \E i \in DOMAIN w : Le(w[i], Zero) \/ Ge(w[i], One)

NyquistMsgFs == "Digital filter critical frequencies must be 0 < Wn < fs/2"
NyquistMsg == "Digital filter critical frequencies must be 0 < Wn < 1"

PreWarp(w, analog, fs) ==
    IF ~analog
    THEN IF OutsideNyquist(w)
         THEN [panic |-> IF IsSome(fs) THEN NyquistMsgFs ELSE NyquistMsg,
               fs |-> Two, warped |-> <<>>]
         ELSE [panic |-> Ok, fs |-> Two,
               warped |-> [i \in DOMAIN w |->
                              [f |-> "2*fs*tan(pi*wn/fs)", wn |-> w[i], fs |-> Two]]]
    ELSE [panic |-> Ok, fs |-> UnwrapOr(fs, One),
          warped |-> [i \in DOMAIN w |-> [f |-> "wn", wn |-> w[i]]]]

----------------------------------------------------------------------------
(* The stages iirfilter_dyn calls in super:: (design/mod.rs and its         *)
(* siblings).  Each is a total function of its inputs; a transformed root   *)
(* is the term "stage applied to root".                                     *)

Degree(f) == Len(f.p) - Len(f.z)
Repeat(x, k) == [i \in 1..k |-> x]
\* one root becomes the pair (root, +) (root, -), all + first
Doubled(op, roots) ==
    [i \in DOMAIN roots |-> [f |-> op, of |-> roots[i], sign |-> "+"]]
      \o [i \in DOMAIN roots |-> [f |-> op, of |-> roots[i], sign |-> "-"]]
Mapped(op, roots) == [i \in DOMAIN roots |-> [f |-> op, of |-> roots[i]]]

lp2lp_zpk_dyn(f, wo) ==
    Zpk(Mapped("lp2lp", f.z), Mapped("lp2lp", f.p), [f |-> "lp2lp", of |-> f.k, wo |-> wo])

lp2hp_zpk_dyn(f, wo) ==
    Zpk(Mapped("lp2hp", f.z) \o Repeat([f |-> "origin"], Degree(f)),
        Mapped("lp2hp", f.p), [f |-> "lp2hp", of |-> f.k, wo |-> wo])

\* the order-4 bandpass fixture of tests::matches_scipy_iirfilter_butter_zpk
\* has 4 zeros at +1, the bilinear images of 4 zeros at the origin
lp2bp_zpk_dyn(f, wo, bw) ==
    Zpk(Doubled("lp2bp", f.z) \o Repeat([f |-> "origin"], Degree(f)), Doubled("lp2bp", f.p),
        [f |-> "lp2bp", of |-> f.k, wo |-> wo, bw |-> bw])

lp2bs_zpk_dyn(f, wo, bw) ==
    Zpk(Doubled("lp2bs", f.z), Doubled("lp2bs", f.p),
        [f |-> "lp2bs", of |-> f.k, wo |-> wo, bw |-> bw])

bilinear_zpk_dyn(f, fs) ==
    Zpk(Mapped("bilinear", f.z) \o Repeat([f |-> "minus one"], Degree(f)),
        Mapped("bilinear", f.p), [f |-> "bilinear", of |-> f.k, fs |-> fs])

\* the product of count factors (x - root) has count + 1 coefficients
zpk2tf_dyn(count, z, p, k) ==
    [b |-> [f |-> "k*poly", roots |-> z, k |-> k, count |-> count, len |-> count + 1],
     a |-> [f |-> "poly", roots |-> p, count |-> count, len |-> count + 1]]

CeilHalf(n) == (n + 1) \div 2
Max(a, b) == IF a >= b THEN a ELSE b
\* one section holds up to two poles and two zeros; the fixture of
\* tests::matches_scipy_iirfilter_butter_sos (8 poles) has 4 sections
zpk2sos_dyn(order, f, pairing, analog) ==
    [f |-> "zpk2sos", order |-> order, zpk |-> f, pairing |-> pairing, analog |-> analog,
     sections |-> CeilHalf(Max(Len(f.z), Len(f.p)))]

(* iirfilter_dyn, lines 151-193: the band transform selected by btype *)

SingleMsg == "Must specify a single critical frequency Wn for lowpass or highpass filter"
PairMsg == "Wn must specify start and stop frequencies for bandpass or bandstop filter"
Bandwidth(wp) == [f |-> "w1-w0", w0 |-> wp[1], w1 |-> wp[2]]
Center(wp) == [f |-> "sqrt(w0*w1)", w0 |-> wp[1], w1 |-> wp[2]]

\* lines 154-162
BandLowpass(w, wp, f) ==
    IF Len(w) # 1 THEN [panic |-> SingleMsg, zpk |-> f]
    ELSE [panic |-> Ok, zpk |-> lp2lp_zpk_dyn(f, Some(wp[1]))]

\* mutation: only an empty wn is refused
BandHighpass_nonempty(w, wp, f) ==
    IF Len(w) = 0 THEN [panic |-> SingleMsg, zpk |-> f]
    ELSE [panic |-> Ok, zpk |-> lp2hp_zpk_dyn(f, Some(wp[1]))]
\* mutation: the highpass arm calls lp2lp
BandHighpass_lowpass(w, wp, f) ==
    IF Len(w) # 1 THEN [panic |-> SingleMsg, zpk |-> f]
    ELSE [panic |-> Ok, zpk |-> lp2lp_zpk_dyn(f, Some(wp[1]))]
\* lines 163-170
BandHighpass(w, wp, f) ==
    IF Len(w) # 1 THEN [panic |-> SingleMsg, zpk |-> f]
    ELSE [panic |-> Ok, zpk |-> lp2hp_zpk_dyn(f, Some(wp[1]))]

\* lines 171-181
BandBandpass(w, wp, f) ==
    IF Len(w) # 2 THEN [panic |-> PairMsg, zpk |-> f]
    ELSE [panic |-> Ok, zpk |-> lp2bp_zpk_dyn(f, Some(Center(wp)), Some(Bandwidth(wp)))]

\* mutation: the bandstop arm calls lp2lp with the centre frequency
BandBandstop_single(w, wp, f) ==
    IF Len(w) # 2 THEN [panic |-> PairMsg, zpk |-> f]
    ELSE [panic |-> Ok, zpk |-> lp2lp_zpk_dyn(f, Some(Center(wp)))]
\* lines 182-192
BandBandstop(w, wp, f) ==
    IF Len(w) # 2 THEN [panic |-> PairMsg, zpk |-> f]
    ELSE [panic |-> Ok, zpk |-> lp2bs_zpk_dyn(f, Some(Center(wp)), Some(Bandwidth(wp)))]

\* mutation: an absent btype selects Lowpass
BandTransform_defaultLowpass(btype, w, wp, f) ==
    LET bt == UnwrapOr(btype, "Lowpass")
    IN  CASE bt = "Lowpass" -> BandLowpass(w, wp, f)
          [] bt = "Highpass" -> BandHighpass(w, wp, f)
          [] bt = "Bandpass" -> BandBandpass(w, wp, f)
          [] bt = "Bandstop" -> BandBandstop(w, wp, f)
BandTransform(btype, w, wp, f) ==
    LET bt == UnwrapOr(btype, "Bandpass")
    IN  CASE bt = "Lowpass" -> BandLowpass(w, wp, f)
          [] bt = "Highpass" -> BandHighpass(w, wp, f)
          [] bt = "Bandpass" -> BandBandpass(w, wp, f)
          [] bt = "Bandstop" -> BandBandstop(w, wp, f)

(* iirfilter_dyn, lines 195-200: the discrete equivalent, if necessary *)

\* mutation: the bilinear transform is never applied
Discretize_never(f, analog, fs) == [ran |-> FALSE, zpk |-> f]
\* mutation: the bilinear transform is applied to analog designs too
Discretize_always(f, analog, fs) == [ran |-> TRUE, zpk |-> bilinear_zpk_dyn(f, fs)]
Discretize(f, analog, fs) ==
    IF ~analog
    THEN [ran |-> TRUE, zpk |-> bilinear_zpk_dyn(f, fs)]
    ELSE [ran |-> FALSE, zpk |-> f]

(* iirfilter_dyn, lines 202-208: the requested representation *)

\* mutation: zpk2tf is asked for order roots, not 2 * order
ConvertOutput_orderCount(output, order, f, analog) ==
    LET out == UnwrapOr(output, "Ba")
    IN  CASE out = "Zpk" -> [tag |-> "Zpk", val |-> f]
          [] out = "Ba" -> [tag |-> "Ba", val |-> zpk2tf_dyn(order, f.z, f.p, f.k)]
          [] out = "Sos" -> [tag |-> "Sos", val |-> zpk2sos_dyn(order, f, None, Some(analog))]
\* mutation: the default representation is Zpk
ConvertOutput_defaultZpk(output, order, f, analog) ==
    LET out == UnwrapOr(output, "Zpk")
    IN  CASE out = "Zpk" -> [tag |-> "Zpk", val |-> f]
          [] out = "Ba" -> [tag |-> "Ba", val |-> zpk2tf_dyn(2 * order, f.z, f.p, f.k)]
          [] out = "Sos" -> [tag |-> "Sos", val |-> zpk2sos_dyn(order, f, None, Some(analog))]
ConvertOutput(output, order, f, analog) ==
    LET out == UnwrapOr(output, "Ba")
    IN  CASE out = "Zpk" -> [tag |-> "Zpk", val |-> f]
          [] out = "Ba" -> [tag |-> "Ba", val |-> zpk2tf_dyn(2 * order, f.z, f.p, f.k)]
          [] out = "Sos" -> [tag |-> "Sos", val |-> zpk2sos_dyn(order, f, None, Some(analog))]

\* lines 98-200 in one piece: the filter a call with arguments a designs before
\* the conversion, for a call no stage of which aborts
DesignZpk(a) ==
    LET v == Validate(a)
        proto == SelectPrototype(a.ftype, a.order, a.rp, a.rs)
        pw == PreWarp(v.wn, AnalogOf(a.analog), a.fs)
        band == BandTransform(a.btype, v.wn, pw.warped, proto.zpk)
    IN  Discretize(band.zpk, AnalogOf(a.analog), pw.fs).zpk

(* The value of a Butterworth pole after lp2lp or lp2hp, in polar form.  *)
(* A prototype pole -exp(re + i*pi*m/(2N)) has log-magnitude re and angle *)
(* pi + pi*m/(2N); angles are counted in units of pi/(2N), modulo 4N.     *)
(* lp2lp maps s to wo*s and lp2hp maps s to wo/s, for the same real wo >  *)
(* 0: the log-magnitude is logwo*log(wo) + re.                            *)

Turn(N) == 4 * N
ProtoPolar(t) == [re |-> t.re, logwo |-> 0, ang |-> (2 * t.N + t.m) % Turn(t.N), N |-> t.N]
SPlane(t) ==
    CASE t.f = "lp2lp" -> [ProtoPolar(t.of) EXCEPT !.logwo = 1]
      [] t.f = "lp2hp" ->
            LET s == ProtoPolar(t.of)
            IN  [re |-> -s.re, logwo |-> 1, ang |-> (Turn(s.N) - s.ang) % Turn(s.N), N |-> s.N]
      [] OTHER -> ProtoPolar(t)
\* bilinear_zpk maps s to a real Moebius image z(s): one to one, z(conj s) =
\* conj z(s), z(-conj s) = 1/conj z(s), |z(s)| < 1 iff Re s < 0
Value(t) ==
    IF t.f = "bilinear" THEN [plane |-> "z", s |-> SPlane(t.of)]
    ELSE [plane |-> "s", s |-> SPlane(t)]
Conj(v) == [v EXCEPT !.s.ang = (Turn(v.s.N) - @) % Turn(v.s.N)]
RecipConj(v) ==
    IF v.plane = "z"
    THEN [v EXCEPT !.s.ang = (Turn(v.s.N) + 2 * v.s.N - @) % Turn(v.s.N)]
    ELSE [v EXCEPT !.s.re = -@, !.s.logwo = -@]
\* the open left half plane: angles strictly between pi/2 and 3*pi/2
LeftHalf(s) == s.N < s.ang /\ s.ang < 3 * s.N
InsideUnitCircle(v) == v.plane = "z" /\ LeftHalf(v.s)

----------------------------------------------------------------------------
(* The call as a state machine *)

NoResult == [tag |-> "none", val |-> <<>>]
NoArgs == [order |-> 0, wn |-> <<>>, rp |-> None, rs |-> None, btype |-> None,
           ftype |-> None, analog |-> None, output |-> None, fs |-> None]

Init ==
    /\ pc = "idle"
    /\ entry = "none"
    /\ args = NoArgs
    /\ wn = <<>>
    /\ fsRef = Zero
    /\ warped = <<>>
    /\ zpk = NoZpk
    /\ trace = <<>>
    /\ result = NoResult
    /\ panicMsg = Ok

\* entry of iirfilter_dyn and lines 61-96
Enter(e, a) ==
    /\ entry' = e
    /\ args' = a
    /\ LET v == Validate(a)
       IN  /\ wn' = v.wn
           /\ panicMsg' = v.panic
           /\ pc' = IF v.panic # Ok THEN "panicked" ELSE "prototype"
    /\ UNCHANGED <<fsRef, warped, zpk, trace, result>>

iirfilter_dyn ==
    /\ pc = "idle"
    /\ \E order \in Orders, w \in WnSeqs, rp \in OptionOf(RippleVals),
       rs \in OptionOf(RippleVals), btype \in OptionOf(FilterBandType),
       ftype \in OptionOf(FilterType), analog \in OptionOf(BOOLEAN),
       output \in OptionOf(FilterOutputType), fs \in OptionOf(FsVals) :
        Enter("iirfilter_dyn",
              [order |-> order, wn |-> w, rp |-> rp, rs |-> rs, btype |-> btype,
               ftype |-> ftype, analog |-> analog, output |-> output, fs |-> fs])

\* lines 350-373
cheby1_dyn ==
    /\ pc = "idle"
    /\ \E n \in Orders, rp \in RippleVals, w \in WnSeqs, btype \in OptionOf(FilterBandType),
       analog \in OptionOf(BOOLEAN), output \in OptionOf(FilterOutputType),
       fs \in OptionOf(FsVals) :
        Enter("cheby1_dyn",
              [order |-> n, wn |-> w, rp |-> Some(rp), rs |-> None, btype |-> btype,
               ftype |-> Some("ChebyshevI"), analog |-> analog, output |-> output,
               fs |-> fs])

\* lines 502-525
cheby2_dyn ==
    /\ pc = "idle"
    /\ \E n \in Orders, rs \in RippleVals, w \in WnSeqs, btype \in OptionOf(FilterBandType),
       analog \in OptionOf(BOOLEAN), output \in OptionOf(FilterOutputType),
       fs \in OptionOf(FsVals) :
        Enter("cheby2_dyn",
              [order |-> n, wn |-> w, rp |-> None, rs |-> Some(rs), btype |-> btype,
               ftype |-> Some("ChebyshevII"), analog |-> analog, output |-> output,
               fs |-> fs])

\* lines 98-127
Prototype ==
    /\ pc = "prototype"
    /\ LET r == SelectPrototype(args.ftype, args.order, args.rp, args.rs)
       IN  /\ panicMsg' = r.panic
           /\ zpk' = r.zpk
           /\ trace' = IF r.panic = Ok THEN Append(trace, "prototype") ELSE trace
           /\ pc' = IF r.panic # Ok THEN "panicked" ELSE "prewarp"
    /\ UNCHANGED <<entry, args, wn, fsRef, warped, result>>

\* lines 129-149
PreWarpStep ==
    /\ pc = "prewarp"
    /\ LET r == PreWarp(wn, AnalogOf(args.analog), args.fs)
       IN  /\ panicMsg' = r.panic
           /\ fsRef' = r.fs
           /\ warped' = r.warped
           /\ pc' = IF r.panic # Ok THEN "panicked" ELSE "band"
    /\ UNCHANGED <<entry, args, wn, zpk, trace, result>>

\* lines 151-193
Band ==
    /\ pc = "band"
    /\ LET r == BandTransform(args.btype, wn, warped, zpk)
       IN  /\ panicMsg' = r.panic
           /\ zpk' = r.zpk
           /\ trace' = IF r.panic = Ok THEN Append(trace, "band") ELSE trace
           /\ pc' = IF r.panic # Ok THEN "panicked" ELSE "bilinear"
    /\ UNCHANGED <<entry, args, wn, fsRef, warped, result>>

\* lines 195-200
Bilinear ==
    /\ pc = "bilinear"
    /\ LET r == Discretize(zpk, AnalogOf(args.analog), fsRef)
       IN  /\ zpk' = r.zpk
           /\ trace' = IF r.ran THEN Append(trace, "bilinear") ELSE trace
    /\ pc' = "convert"
    /\ UNCHANGED <<entry, args, wn, fsRef, warped, result, panicMsg>>

\* lines 202-208
Convert ==
    /\ pc = "convert"
    /\ result' = ConvertOutput(args.output, args.order, zpk, AnalogOf(args.analog))
    /\ trace' = Append(trace, "output")
    /\ pc' = "returned"
    /\ UNCHANGED <<entry, args, wn, fsRef, warped, zpk, panicMsg>>

(* The prototype generators called on their own *)

MaxProtoOrder == 16
\* ripple and attenuation in dB
ProtoRipples == {Rat(0, 1), Rat(1, 1), Rat(3, 1)}

ButtapCall ==
    /\ pc = "idle"
    /\ \E n \in 0..MaxProtoOrder :
        /\ entry' = "buttap_dyn"
        /\ args' = [NoArgs EXCEPT !.order = n]
        /\ zpk' = buttap_dyn(n)
    /\ pc' = "returned"
    /\ UNCHANGED <<wn, fsRef, warped, trace, result, panicMsg>>

Cheb1apCall ==
    /\ pc = "idle"
    /\ \E n \in 0..MaxProtoOrder, rp \in ProtoRipples :
        /\ entry' = "cheb1ap_dyn"
        /\ args' = [NoArgs EXCEPT !.order = n, !.rp = Some(rp)]
        /\ zpk' = cheb1ap_dyn(n, rp)
    /\ pc' = "returned"
    /\ UNCHANGED <<wn, fsRef, warped, trace, result, panicMsg>>

Cheb2apCall ==
    /\ pc = "idle"
    /\ \E n \in 0..MaxProtoOrder, rs \in ProtoRipples :
        /\ entry' = "cheb2ap_dyn"
        /\ args' = [NoArgs EXCEPT !.order = n, !.rs = Some(rs)]
        /\ zpk' = cheb2ap_dyn(n, rs)
    /\ pc' = "returned"
    /\ UNCHANGED <<wn, fsRef, warped, trace, result, panicMsg>>

NextProto ==
    \/ ButtapCall
    \/ Cheb1apCall
    \/ Cheb2apCall

SpecProto == Init /\ [][NextProto]_vars

(* Butterworth designs of higher order, as the tests call iirfilter_dyn *)

MaxDesignOrder == 4
DesignOrders == 1..MaxDesignOrder
DesignWn == SeqsUpTo(WnVals, 2)

iirfilter_dyn_butter ==
    /\ pc = "idle"
    /\ \E order \in DesignOrders, w \in DesignWn, btype \in OptionOf(FilterBandType),
       ftype \in OptionOf({"Butterworth"}), analog \in OptionOf(BOOLEAN),
       output \in OptionOf(FilterOutputType), fs \in OptionOf(FsVals) :
        Enter("iirfilter_dyn",
              [order |-> order, wn |-> w, rp |-> None, rs |-> None, btype |-> btype,
               ftype |-> ftype, analog |-> analog, output |-> output, fs |-> fs])

NextDesign ==
    \/ iirfilter_dyn_butter
    \/ Prototype
    \/ PreWarpStep
    \/ Band
    \/ Bilinear
    \/ Convert

SpecDesign == Init /\ [][NextDesign]_vars

(* signal/convolve.rs: convolve and fftconvolve on 1-D arrays *)

MaxConvLen == 3
ConvVals == {1, 2}
ConvInputs == {s \in SeqsUpTo(ConvVals, MaxConvLen) : Len(s) >= 1}
ConvolveMode == {"Full", "Valid", "Same"}

ConvTerm(x, h, k, i) == IF 1 <= k - i + 1 /\ k - i + 1 <= Len(h) THEN x[i] * h[k - i + 1] ELSE 0
RECURSIVE ConvSum(_, _, _, _)
ConvSum(x, h, k, i) == IF i = 0 THEN 0 ELSE ConvTerm(x, h, k, i) + ConvSum(x, h, k, i - 1)
\* out[k] = sum_i in1[i] * in2[k - i], all Len(x) + Len(h) - 1 values
FullConv(x, h) == [k \in 1..(Len(x) + Len(h) - 1) |-> ConvSum(x, h, k, Len(x))]

\* conv_fft(.., ConvMode::Same, PaddingMode::Zeros): Len(x) values of the
\* full convolution starting off values in; off is the centre of the kernel,
\* either of the two middle positions when Len(h) is even
SameOffsets(h) == {(Len(h) - 1) \div 2, Len(h) \div 2}
conv_fft_same(x, h, off) == [k \in 1..Len(x) |-> FullConv(x, h)[k + off]]

\* lines 47-58
fftconvolve(in1, in2, mode, off) ==
    CASE mode = "Full" -> [panic |-> "not yet implemented", out |-> <<>>]
      [] mode = "Valid" -> [panic |-> "not yet implemented", out |-> <<>>]
      [] mode = "Same" -> [panic |-> Ok, out |-> conv_fft_same(in1, in2, off)]

\* line 90
convolve(in1, in2, mode, off) == fftconvolve(in1, in2, mode, off)

ConvCall(e, in1, in2, mode, r) ==
    /\ entry' = e
    /\ args' = [in1 |-> in1, in2 |-> in2, mode |-> mode]
    /\ panicMsg' = r.panic
    /\ result' = IF r.panic = Ok THEN [tag |-> "Array", val |-> r.out] ELSE NoResult
    /\ pc' = IF r.panic = Ok THEN "returned" ELSE "panicked"
    /\ UNCHANGED <<wn, fsRef, warped, zpk, trace>>

ConvolveCall ==
    /\ pc = "idle"
    /\ \E in1 \in ConvInputs, in2 \in ConvInputs, mode \in ConvolveMode :
        \E off \in SameOffsets(in2) :
            ConvCall("convolve", in1, in2, mode, convolve(in1, in2, mode, off))

FftconvolveCall ==
    /\ pc = "idle"
    /\ \E in1 \in ConvInputs, in2 \in ConvInputs, mode \in ConvolveMode :
        \E off \in SameOffsets(in2) :
            ConvCall("fftconvolve", in1, in2, mode, fftconvolve(in1, in2, mode, off))

NextConv ==
    \/ ConvolveCall
    \/ FftconvolveCall

SpecConv == Init /\ [][NextConv]_vars

(* Axis normalisation: check_and_get_axis (lfilter.rs) and                  *)
(* check_and_get_axis_st, check_and_get_axis_dyn (arraytools.rs)            *)

MaxDim == 3
MaxAxis == 4
Dims == 0..MaxDim
AxisArgs == OptionOf((-MaxAxis)..MaxAxis)

unsigned_abs(i) == IF i < 0 THEN -i ELSE i
\* usize::checked_add_signed: None when the sum leaves usize
checked_add_signed(u, i) == IF u + i < 0 THEN None ELSE Some(u + i)

ErrAxis == [tag |-> "Err", val |-> [kind |-> "InvalidArg", arg |-> "axis",
                                   reason |-> "index out of range."]]
ErrUnit == [tag |-> "Err", val |-> [kind |-> "()"]]
OkAxis(i) == [tag |-> "Ok", val |-> [i |-> i]]
ExpectMsg == "Invalid add to axis option"

\* mutation: a negative axis is compared with < (the axis -N is refused)
AxisOutOfRange_strict(axis, n) ==
    /\ IsSome(axis)
    /\ ~(IF Unwrap(axis) < 0
         THEN unsigned_abs(Unwrap(axis)) < n
         ELSE unsigned_abs(Unwrap(axis)) < n)
\* lfilter.rs lines 45-51, arraytools.rs lines 77-83
AxisOutOfRange(axis, n) ==
    /\ IsSome(axis)
    /\ ~(IF Unwrap(axis) < 0
         THEN unsigned_abs(Unwrap(axis)) <= n
         ELSE unsigned_abs(Unwrap(axis)) < n)

\* lfilter.rs lines 59-68, arraytools.rs lines 45-56 and 91-99
AxisInner(axis, n) ==
    LET axis_inner == UnwrapOr(axis, -1)
    IN  IF axis_inner >= 0
        THEN [panic |-> Ok, res |-> OkAxis(unsigned_abs(axis_inner))]
        ELSE LET sum == checked_add_signed(n, axis_inner)
             IN  IF IsNone(sum)
                 THEN [panic |-> ExpectMsg, res |-> NoResult]
                 ELSE [panic |-> Ok, res |-> OkAxis(Unwrap(sum))]

\* lfilter.rs lines 33-69
check_and_get_axis(axis, n) ==
    IF AxisOutOfRange(axis, n) THEN [panic |-> Ok, res |-> ErrAxis]
    ELSE AxisInner(axis, n)

\* arraytools.rs lines 21-57
check_and_get_axis_st(axis, n) ==
    LET refused == CASE IsNone(axis) -> FALSE
                     [] IsSome(axis) /\ Unwrap(axis) < 0 -> unsigned_abs(Unwrap(axis)) > n
                     [] OTHER -> unsigned_abs(Unwrap(axis)) >= n
    IN  IF refused THEN [panic |-> Ok, res |-> ErrUnit]
        ELSE AxisInner(axis, n)

\* arraytools.rs lines 66-100
check_and_get_axis_dyn(axis, ndim) ==
    IF AxisOutOfRange(axis, ndim) THEN [panic |-> Ok, res |-> ErrAxis]
    ELSE AxisInner(axis, ndim)

\* a call that returns r or panics
Finish(e, a, r) ==
    /\ entry' = e
    /\ args' = a
    /\ panicMsg' = r.panic
    /\ result' = r.res
    /\ pc' = IF r.panic = Ok THEN "returned" ELSE "panicked"
    /\ UNCHANGED <<wn, fsRef, warped, zpk, trace>>

CheckAxisCall ==
    /\ pc = "idle"
    /\ \E axis \in AxisArgs, n \in Dims :
        Finish("check_and_get_axis", [axis |-> axis, ndim |-> n], check_and_get_axis(axis, n))

CheckAxisStCall ==
    /\ pc = "idle"
    /\ \E axis \in AxisArgs, n \in Dims :
        Finish("check_and_get_axis_st", [axis |-> axis, ndim |-> n],
               check_and_get_axis_st(axis, n))

CheckAxisDynCall ==
    /\ pc = "idle"
    /\ \E axis \in AxisArgs, n \in Dims :
        Finish("check_and_get_axis_dyn", [axis |-> axis, ndim |-> n],
               check_and_get_axis_dyn(axis, n))

NextAxis ==
    \/ CheckAxisCall
    \/ CheckAxisStCall
    \/ CheckAxisDynCall

SpecAxis == Init /\ [][NextAxis]_vars

(* Arrays of 0, 1 or 2 dimensions.  rows holds the lanes of the last axis: *)
(* one lane for a 1-D array, one lane of one element for a 0-D array.       *)

Array0(v) == [ndim |-> 0, rows |-> <<<<v>>>>]
Array1(lane) == [ndim |-> 1, rows |-> <<lane>>]
Array2(rows) == [ndim |-> 2, rows |-> rows]
NRows(x) == Len(x.rows)
NCols(x) == IF x.rows = <<>> THEN 0 ELSE Len(x.rows[1])
Shape(x) == CASE x.ndim = 0 -> <<>>
              [] x.ndim = 1 -> <<NCols(x)>>
              [] x.ndim = 2 -> <<NRows(x), NCols(x)>>
Transposed(rows) ==
    IF rows = <<>> THEN <<>>
    ELSE [j \in 1..Len(rows[1]) |-> [i \in 1..Len(rows) |-> rows[i][j]]]
\* the lanes along axis: the rows for the last axis, the columns for axis 0
\* of a 2-D array
LastAxis(x, axis) == axis = x.ndim - 1
Lanes(x, axis) == IF LastAxis(x, axis) THEN x.rows ELSE Transposed(x.rows)
WithLanes(x, axis, lanes) ==
    [x EXCEPT !.rows = IF LastAxis(x, axis) THEN lanes ELSE Transposed(lanes)]

(* signal/filter/lfilter.rs: lfilter *)

MaxSigLen == 3
SigVals == {1, 2}
SigLanes == {s \in SeqsUpTo(SigVals, MaxSigLen) : Len(s) >= 1}
SigArrays ==
    {Array0(v) : v \in SigVals} \cup {Array1(s) : s \in SigLanes}
      \cup {Array2(<<r, s>>) : r, s \in {t \in SigLanes : Len(t) < MaxSigLen}}
SigArraysOk == {x \in SigArrays : x.ndim < 2 \/ Len(x.rows[1]) = Len(x.rows[2])}
LfilterB == {s \in SeqsUpTo({1, 2}, 2) : Len(s) >= 1}
LfilterA == SeqsUpTo({0, 2}, 2)
LfilterAxes == OptionOf((-3)..2)
LfilterZi == OptionOf({<<1>>})

ErrArg(arg, reason) == [tag |-> "Err", val |-> [kind |-> "InvalidArg", arg |-> arg,
                                               reason |-> reason]]
\* num_rs::convolve(.., ConvolveMode::Full): the full discrete convolution
num_rs_convolve_full(in1, in2) == FullConv(in1, in2)

\* mutation: b is used without the division by a[0]
NormaliseB_raw(b, a) == b
\* line 175
NormaliseB(b, a) == [i \in DOMAIN b |-> b[i] \div a[1]]

\* lines 186-204: one lane, the first Len(y) values of the full convolution
FilterLane(y, b) == SubSeq(num_rs_convolve_full(y, b), 1, Len(y))

\* lines 148-206; zi is not read
lfilter(b, a, x, axis, zi) ==
    IF x.ndim = 0
    THEN [panic |-> Ok,
          res |-> ErrArg("x", "Linear filter requires at least 1-dimensional x.")]
    ELSE IF Len(a) > 1
    THEN [panic |-> "not implemented", res |-> NoResult]
    ELSE LET ax == check_and_get_axis(axis, x.ndim)
         IN  IF ax.panic # Ok \/ ax.res.tag = "Err" THEN ax
             ELSE IF a = <<>>
             THEN [panic |-> Ok, res |-> ErrArg("a", "Empty 1D array will result in inf/nan result.")]
             ELSE IF a[1] = 0
             THEN [panic |-> Ok, res |-> ErrArg("a", "First element of a found to be zero.")]
             ELSE LET bn == NormaliseB(b, a)
                      lanes == Lanes(x, ax.res.val.i)
                      out == [l \in DOMAIN lanes |-> FilterLane(lanes[l], bn)]
                  IN  [panic |-> Ok,
                       res |-> [tag |-> "Ok",
                                val |-> [y |-> WithLanes(x, ax.res.val.i, out), zf |-> None]]]

LfilterCall ==
    /\ pc = "idle"
    /\ \E b \in LfilterB, a \in LfilterA, x \in SigArraysOk, axis \in LfilterAxes,
       zi \in LfilterZi :
        Finish("lfilter", [b |-> b, a |-> a, x |-> x, axis |-> axis, zi |-> zi],
               lfilter(b, a, x, axis, zi))

NextFilter ==
    \/ LfilterCall

SpecFilter == Init /\ [][NextFilter]_vars

(* signal/filter/arraytools.rs: axis_slice *)

MaxSliceLen == 3
\* usize arithmetic wraps; 16 bits stand for the width of usize, every axis
\* length and index of the model being far below
UsizeSpan == 2 ^ 16
\* ndarray: a negative index counts from the end of the axis, as usize
abs_index(len, i) == IF i < 0 THEN (len + i) % UsizeSpan ELSE i

\* start, step - 1 more, ... below end (step > 0); end - 1, step + 1 less,
\* ... not below start (step < 0); indices from 0
RECURSIVE Strided(_, _, _)
Strided(lo, hi, step) ==
    IF lo >= hi THEN <<>>
    ELSE IF step > 0 THEN <<lo>> \o Strided(lo + step, hi, step)
    ELSE <<hi - 1>> \o Strided(lo, hi + step, step)

\* ArrayBase::slice on one axis of length len, line 200: the indices it
\* selects, or the panic of its bounds assertions
NdSlice(len, start, end, step) ==
    LET s == abs_index(len, start)
        e0 == abs_index(len, UnwrapOr(end, len))
        e == IF e0 < s THEN s ELSE e0
    IN  IF s > len THEN [panic |-> "Slice begin is past end of axis", idx |-> <<>>]
        ELSE IF e > len THEN [panic |-> "Slice end is past end of axis", idx |-> <<>>]
        ELSE IF step = 0 THEN [panic |-> "Slice stride must be non-zero", idx |-> <<>>]
        ELSE [panic |-> Ok, idx |-> Strided(s, e, step)]

AxisLen(x, axis) == Shape(x)[axis + 1]
Pick(lane, idx) == [k \in DOMAIN idx |-> lane[idx[k] + 1]]
\* the view of x that keeps the elements idx of every lane along axis
SliceAxis(x, axis, idx) ==
    LET lanes == Lanes(x, axis)
    IN  WithLanes(x, axis, [l \in DOMAIN lanes |-> Pick(lanes[l], idx)])

\* lines 132-201; dyn: the dimension type D is IxDyn (D::NDIM is None)
axis_slice(a, dyn, start, end, step, axis) ==
    IF dyn THEN [panic |-> Ok, res |-> ErrArg("a", "IxDyn array is not supported")]
    ELSE IF AxisOutOfRange(axis, a.ndim) THEN [panic |-> Ok, res |-> ErrAxis]
    ELSE LET ax == AxisInner(axis, a.ndim)
         IN  IF ax.panic # Ok THEN ax
             ELSE LET axis_inner == ax.res.val.i
                      sl == NdSlice(AxisLen(a, axis_inner), UnwrapOr(start, 0), end,
                                    UnwrapOr(step, 1))
                  IN  IF sl.panic # Ok THEN [panic |-> sl.panic, res |-> NoResult]
                      ELSE [panic |-> Ok,
                            res |-> [tag |-> "Ok", val |-> SliceAxis(a, axis_inner, sl.idx)]]

Iota(n) == [j \in 1..n |-> j]
SliceArrays ==
    {Array0(1)} \cup {Array1(Iota(n)) : n \in 0..MaxSliceLen}
      \cup {Array2(<<Iota(n), [j \in 1..n |-> n + j]>>) : n \in 1..MaxSliceLen}
SliceIdx == OptionOf((-4)..4)
SliceSteps == OptionOf({-2, -1, 0, 1})

AxisSliceCall ==
    /\ pc = "idle"
    /\ \E a \in SliceArrays, dyn \in BOOLEAN, start \in SliceIdx, end \in SliceIdx,
       step \in SliceSteps, axis \in LfilterAxes :
        Finish("axis_slice",
               [a |-> a, dyn |-> dyn, start |-> start, end |-> end, step |-> step,
                axis |-> axis],
               axis_slice(a, dyn, start, end, step, axis))

NextSlice ==
    \/ AxisSliceCall

SpecSlice == Init /\ [][NextSlice]_vars

(* signal/filter/filtfilt.rs: FiltFiltPadType::ext *)

MaxExtLen == 3
ExtVals == {0, 1, 2}
ExtLanes == {s \in SeqsUpTo(ExtVals, MaxExtLen) : Len(s) >= 1}
Reversed(s) == [i \in DOMAIN s |-> s[Len(s) + 1 - i]]
ExtArrays ==
    {Array0(1)} \cup {Array1(s) : s \in ExtLanes} \cup {Array2(<<s, Reversed(s)>>) : s \in ExtLanes}
FiltFiltPadType == {"Odd", "Even", "Const"}

(* axis_slice_unsafe of arraytools: the slice start:end:step along axis as   *)
(* numpy takes it, which is what the tests odd_ext_doc, even_ext_doc and     *)
(* odd_ext_limits record (x[n:0:-1] has n elements, x[-2:-2-n:-1] is cut off *)
(* at the start of the axis).                                                *)

Clamp(i, lo, hi) == IF i < lo THEN lo ELSE IF i > hi THEN hi ELSE i
FromEnd(i, len) == IF i < 0 THEN i + len ELSE i
RECURSIVE PyRange(_, _, _)
PyRange(from, to, step) ==
    IF (step > 0 /\ from >= to) \/ (step < 0 /\ from <= to) THEN <<>>
    ELSE <<from>> \o PyRange(from + step, to, step)
PySlice(len, start, end, step) ==
    IF step > 0
    THEN PyRange(IF IsNone(start) THEN 0 ELSE Clamp(FromEnd(Unwrap(start), len), 0, len),
                 IF IsNone(end) THEN len ELSE Clamp(FromEnd(Unwrap(end), len), 0, len),
                 step)
    ELSE PyRange(IF IsNone(start) THEN len - 1
                 ELSE Clamp(FromEnd(Unwrap(start), len), -1, len - 1),
                 IF IsNone(end) THEN -1 ELSE Clamp(FromEnd(Unwrap(end), len), -1, len - 1),
                 step)
axis_slice_unsafe(a, start, end, step, axis) ==
    SliceAxis(a, axis, PySlice(AxisLen(a, axis), start, end, UnwrapOr(step, 1)))

(* elementwise arithmetic of ndarray, an axis of length 1 being broadcast *)
\* a length of 1 takes the other length, 0 included
BroadcastRows(a, b) == IF NRows(a) = 1 THEN NRows(b) ELSE NRows(a)
BroadcastCols(a, b) == IF NCols(a) = 1 THEN NCols(b) ELSE NCols(a)
At(a, i, j) == a.rows[IF NRows(a) = 1 THEN 1 ELSE i][IF NCols(a) = 1 THEN 1 ELSE j]
ArrayAdd(a, b) ==
    [a EXCEPT !.rows = [i \in 1..BroadcastRows(a, b) |->
                           [j \in 1..BroadcastCols(a, b) |-> At(a, i, j) + At(b, i, j)]]]
ArraySub(a, b) ==
    [a EXCEPT !.rows = [i \in 1..BroadcastRows(a, b) |->
                           [j \in 1..BroadcastCols(a, b) |-> At(a, i, j) - At(b, i, j)]]]
ArrayMul(a, b) ==
    [a EXCEPT !.rows = [i \in 1..BroadcastRows(a, b) |->
                           [j \in 1..BroadcastCols(a, b) |-> At(a, i, j) * At(b, i, j)]]]
\* lines 110-114: ones of length n along axis and of length 1 elsewhere
Ones(ndim, axis, n) ==
    IF axis = ndim - 1
    THEN [ndim |-> ndim, rows |-> <<[j \in 1..n |-> 1]>>]
    ELSE [ndim |-> ndim, rows |-> [i \in 1..n |-> <<1>>]]
\* ndarray::concatenate of three arrays along axis
Concatenate(axis, l, x, r) ==
    IF LastAxis(x, axis)
    THEN IF NRows(l) # NRows(x) \/ NRows(r) # NRows(x)
         THEN ErrArg("x", "Shape Error")
         ELSE [tag |-> "Ok",
               val |-> [x EXCEPT !.rows = [i \in 1..NRows(x) |-> l.rows[i] \o x.rows[i] \o r.rows[i]]]]
    ELSE IF NCols(l) # NCols(x) \/ NCols(r) # NCols(x)
         THEN ErrArg("x", "Shape Error")
         ELSE [tag |-> "Ok", val |-> [x EXCEPT !.rows = l.rows \o x.rows \o r.rows]]

\* lines 95-108
ext_even(x, n, axis) ==
    LET left_ext == axis_slice_unsafe(x, Some(n), Some(0), Some(-1), axis)
        right_ext == axis_slice_unsafe(x, Some(-2), Some(-2 - n), Some(-1), axis)
    IN  Concatenate(axis, left_ext, x, right_ext)

\* mutation: the odd extension is the even one
ext_odd_mirrored(x, n, axis) == ext_even(x, n, axis)
\* lines 74-94
ext_odd(x, n, axis) ==
    LET left_end == axis_slice_unsafe(x, Some(0), Some(1), None, axis)
        left_ext == axis_slice_unsafe(x, Some(n), Some(0), Some(-1), axis)
        right_end == axis_slice_unsafe(x, Some(-1), None, None, axis)
        right_ext == axis_slice_unsafe(x, Some(-2), Some(-2 - n), Some(-1), axis)
        ll == ArraySub(ArrayAdd(left_end, left_end), left_ext)
        rr == ArraySub(ArrayAdd(right_end, right_end), right_ext)
    IN  Concatenate(axis, ll, x, rr)

\* lines 109-138
ext_const(x, n, axis) ==
    LET ones == Ones(x.ndim, axis, n)
        left_ext == ArrayMul(ones, axis_slice_unsafe(x, Some(0), Some(1), None, axis))
        right_ext == ArrayMul(ones, axis_slice_unsafe(x, Some(-1), None, None, axis))
    IN  Concatenate(axis, left_ext, x, right_ext)

\* mutation: n equal to the length of the axis is accepted
ExtTooLong_strict(n, axis_len) == n > axis_len
\* line 64
ExtTooLong(n, axis_len) == n >= axis_len

\* lines 39-140
ext(self, x, n, axis) ==
    IF n < 1 THEN [panic |-> Ok, res |-> [tag |-> "Ok", val |-> x]]
    ELSE LET ax == check_and_get_axis_dyn(axis, x.ndim)
         IN  IF ax.panic # Ok THEN ax
             ELSE IF ax.res.tag = "Err" THEN [panic |-> Ok, res |-> ErrAxis]
             ELSE LET i == ax.res.val.i
                  IN  IF ExtTooLong(n, AxisLen(x, i))
                      THEN [panic |-> Ok,
                            res |-> ErrArg("n", "Extension of array cannot be longer than array in specified axis.")]
                      ELSE [panic |-> Ok,
                            res |-> CASE self = "Odd" -> ext_odd(x, n, i)
                                      [] self = "Even" -> ext_even(x, n, i)
                                      [] self = "Const" -> ext_const(x, n, i)]

ExtCall ==
    /\ pc = "idle"
    /\ \E self \in FiltFiltPadType, x \in ExtArrays, n \in 0..(MaxExtLen + 1),
       axis \in LfilterAxes :
        Finish("ext", [self |-> self, x |-> x, n |-> n, axis |-> axis], ext(self, x, n, axis))

NextExt ==
    \/ ExtCall

SpecExt == Init /\ [][NextExt]_vars

Next ==
    \/ iirfilter_dyn
    \/ cheby1_dyn
    \/ cheby2_dyn
    \/ Prototype
    \/ PreWarpStep
    \/ Band
    \/ Bilinear
    \/ Convert

Spec == Init /\ [][Next]_vars

----------------------------------------------------------------------------
(* Properties of iirfilter_dyn *)

Called == pc # "idle"
Returned == pc = "returned"
Panicked == pc = "panicked"
AnalogArg == args.analog = Some(TRUE)
DigitalArg == args.analog \in {None, Some(FALSE)}
\* no stage has run and the call has not passed the prototype selection
BeforePrototype == pc \in {"panicked", "prototype"} /\ trace = <<>> /\ zpk = NoZpk
FinallyAborts == pc # "returned"

\* the critical frequency wn[i] as the checks see it: 2*wn[i]/fs when fs is given
Normalised(i) ==
    IF args.fs = None THEN args.wn[i]
    ELSE [n |-> 2 * args.wn[i].n * args.fs[1].d, d |-> args.wn[i].d * args.fs[1].n]
Positive(x) == x.n > 0
BelowOne(x) == x.n < x.d
Negative(o) == o # None /\ o[1].n < 0

\* C1: a call that returns has run prototype, band transform, bilinear
\* transform and output conversion once each, in this order, the bilinear
\* transform exactly when analog is false or absent; at every moment the
\* stages run so far are a prefix of that order.
C1_StageOrder ==
    LET expected == IF AnalogArg THEN <<"prototype", "band", "output">>
                    ELSE <<"prototype", "band", "bilinear", "output">>
    IN  /\ Len(trace) <= Len(expected)
        /\ \A i \in 1..Len(trace) : trace[i] = expected[i]
        /\ Returned => trace = expected
        /\ Returned /\ DigitalArg => zpk.k.f = "bilinear"
        /\ Returned /\ AnalogArg => zpk.k.f # "bilinear"

C1_Witness ==
    /\ Returned
    /\ args.analog = None
    /\ trace = <<"prototype", "band", "bilinear", "output">>

\* C2: the returned DigitalFilter is of the requested kind: Zpk for Zpk, Ba
\* for Ba, Sos for Sos, and Ba when no output is requested.
C2_RequestedRepresentation ==
    Returned =>
        /\ result.tag \in {"Zpk", "Ba", "Sos"}
        /\ args.output = Some("Zpk") => result.tag = "Zpk"
        /\ args.output = Some("Ba") => result.tag = "Ba"
        /\ args.output = Some("Sos") => result.tag = "Sos"
        /\ args.output = None => result.tag = "Ba"

C2_Witness == Returned /\ args.output = None /\ result.tag = "Ba"

\* C3: a filter is returned only for one frequency with Lowpass/Highpass and
\* two with Bandpass/Bandstop; a call with any other length of wn never gets
\* past the band transform and never returns.
C3_WnLength ==
    LET n == Len(args.wn)
        mismatch == \/ n = 0
                    \/ n > 2
                    \/ args.btype \in {Some("Lowpass"), Some("Highpass")} /\ n # 1
                    \/ args.btype \in {Some("Bandpass"), Some("Bandstop")} /\ n # 2
    IN  Called /\ mismatch => pc \in {"panicked", "prototype", "prewarp", "band"}

C3_Witness ==
    /\ Panicked
    /\ args.btype = Some("Lowpass")
    /\ Len(args.wn) = 2
    /\ panicMsg = SingleMsg

\* C4: a call with fs given and analog = true is rejected at once, whatever
\* the other arguments are.
C4_FsWithAnalogRejected ==
    Called /\ args.fs # None /\ AnalogArg => Panicked /\ trace = <<>>

C4_Witness ==
    /\ Panicked
    /\ args.fs # None
    /\ AnalogArg
    /\ panicMsg = "fs cannot be specified for an analog filter"

\* C5: a call with some critical frequency (after the division by fs) <= 0,
\* or with two frequencies and wn[0] >= wn[1], panics before any prototype
\* is generated; so a filter is returned only for positive, increasing wn.
C5_WnPositiveIncreasing ==
    LET n == Len(args.wn)
        bad == \/ \E i \in 1..n : ~Positive(Normalised(i))
               \/ n = 2 /\ ~Lt(Normalised(1), Normalised(2))
    IN  Called /\ bad => Panicked /\ trace = <<>> /\ zpk = NoZpk

C5_Witness ==
    /\ Panicked
    /\ args.fs # None
    /\ Len(args.wn) = 2
    /\ Positive(Normalised(1))
    /\ panicMsg = "Wn[0] must be less than Wn[1]"

\* C6: a digital design returns only if every normalised critical frequency
\* is strictly between 0 and 1; with fs given a frequency at or above fs/2
\* never gets past the pre-warping; an analog design is never refused by the
\* Nyquist check.
C6_DigitalNyquist ==
    LET n == Len(args.wn)
    IN  /\ DigitalArg /\ pc \in {"band", "bilinear", "convert", "returned"} =>
              \A i \in 1..n : Positive(Normalised(i)) /\ BelowOne(Normalised(i))
        /\ Called /\ args.fs # None
              /\ (\E i \in 1..n : 2 * args.wn[i].n * args.fs[1].d >= args.fs[1].n * args.wn[i].d)
              => pc \in {"panicked", "prototype", "prewarp"}
        /\ Panicked /\ AnalogArg => panicMsg \notin {NyquistMsg, NyquistMsgFs}

C6_Witness ==
    /\ Returned
    /\ DigitalArg
    /\ args.fs # None
    /\ Len(args.wn) = 2

\* C7: a negative rp or rs is a panic before any prototype, for every filter
\* type; the ripple checks refuse only negative values, so 0 passes them.
C7_NegativeRippleRejected ==
    /\ Called /\ (Negative(args.rp) \/ Negative(args.rs)) => Panicked /\ trace = <<>>
    /\ panicMsg = "passband ripple (rp) must be positive" => Negative(args.rp)
    /\ panicMsg = "stopband attenuation (rs) must be positive" => Negative(args.rs)

C7_Witness ==
    /\ Panicked
    /\ args.ftype = Some("Butterworth")
    /\ args.rp = Some(Zero)
    /\ Negative(args.rs)
    /\ panicMsg = "stopband attenuation (rs) must be positive"

\* C8: a call whose filter type needs a ripple parameter that is absent
\* (ChebyshevI without rp, ChebyshevII without rs, CauerElliptic without rp
\* or rs) never generates a prototype and never returns.
C8_MissingRippleAborts ==
    LET missing == \/ args.ftype = Some("ChebyshevI") /\ args.rp = None
                   \/ args.ftype = Some("ChebyshevII") /\ args.rs = None
                   \/ args.ftype = Some("CauerElliptic") /\ (args.rp = None \/ args.rs = None)
    IN  Called /\ missing => BeforePrototype

C8_Witness ==
    /\ Panicked
    /\ args.ftype = Some("ChebyshevI")
    /\ args.rp = None
    /\ panicMsg = "passband ripple (rp) must be provided to design a Chebyshev I filter"

\* C9: a call of cheby2_dyn whose arguments pass the validation rules (rs >=
\* 0, wn positive, increasing, below Nyquist for a digital design and of the
\* length of the band type, no fs with analog) does not abort.
C9_Cheby2Returns ==
    LET n == Len(args.wn)
        valid == /\ ~Negative(args.rs)
                 /\ ~(args.fs # None /\ AnalogArg)
                 /\ \/ args.btype \in {Some("Lowpass"), Some("Highpass")} /\ n = 1
                    \/ args.btype \in {Some("Bandpass"), Some("Bandstop")} /\ n = 2
                 /\ \A i \in 1..n : Positive(Normalised(i))
                 /\ DigitalArg => \A i \in 1..n : BelowOne(Normalised(i))
                 /\ n = 2 => Lt(Normalised(1), Normalised(2))
    IN  entry = "cheby2_dyn" /\ valid => ~Panicked

\* C10: a call with ftype CauerElliptic or BesselThomson never generates a
\* prototype and never returns, whatever the other arguments are.
C10_UnimplementedFailFast ==
    Called /\ args.ftype \in {Some("CauerElliptic"), Some("BesselThomson")}
        => BeforePrototype

C10_Witness ==
    /\ Panicked
    /\ args.ftype = Some("CauerElliptic")
    /\ args.rp # None /\ ~Negative(args.rp)
    /\ args.rs # None /\ ~Negative(args.rs)
    /\ panicMsg = "not yet implemented"


\* C11: with ftype absent the prototype is buttap_dyn(order); with btype
\* absent the band transform is lp2bp, so exactly two critical frequencies
\* are required; with analog absent the design is digital (the bilinear
\* transform runs).
C11_Defaults ==
    /\ args.ftype = None /\ pc = "prewarp" => zpk = buttap_dyn(args.order)
    /\ args.btype = None /\ pc = "bilinear" => zpk.k.f = "lp2bp"
    /\ args.btype = None /\ pc \in {"bilinear", "convert", "returned"} => Len(args.wn) = 2
    /\ args.analog = None /\ Returned =>
          /\ trace = <<"prototype", "band", "bilinear", "output">>
          /\ zpk.k.f = "bilinear"
          /\ fsRef = Two

C11_Witness ==
    /\ Returned
    /\ args.ftype = None
    /\ args.btype = None
    /\ args.analog = None
    /\ zpk.k.of.f = "lp2bp"
    /\ zpk.k.of.of = [f |-> "one"]


\* C12: cheby1_dyn and cheby2_dyn called with btype = None and a single
\* critical frequency design a lowpass filter: the call is not refused for
\* want of a second frequency and its band transform is lp2lp.
C12_ChebyDefaultLowpass ==
    entry \in {"cheby1_dyn", "cheby2_dyn"} /\ args.btype = None /\ Len(args.wn) = 1 =>
        /\ panicMsg # PairMsg
        /\ pc = "bilinear" => zpk.k.f = "lp2lp"


\* The invalid inputs of C13, each absent the ones checked before it
TooManyWn == Len(args.wn) > 2
FsAnalogConflict == args.fs # None /\ AnalogArg
NonPositiveWn == \E i \in 1..Len(args.wn) : ~Positive(Normalised(i))
UnorderedWn == Len(args.wn) = 2 /\ ~Lt(Normalised(1), Normalised(2))
InvalidInput == TooManyWn \/ NonPositiveWn \/ UnorderedWn \/ Negative(args.rp) \/ Negative(args.rs)

\* C13 as stated: an invalid input (more than two frequencies, a frequency
\* <= 0, wn[0] >= wn[1], a negative rp or rs) is rejected with a structured
\* error value of kind InvalidArg or ConflictArg.
C13_StructuredError ==
    Called /\ InvalidInput => ~Panicked /\ result.tag \in {"InvalidArg", "ConflictArg"}

\* C13 as amended: each such input is rejected by a panic raised before any
\* prototype is generated, and the panic carries the message of the first
\* check that fails, in the order length, fs/analog, sign, order, rp, rs; no
\* error value is ever returned.
C13_RejectedByPanic ==
    /\ result.tag \notin {"InvalidArg", "ConflictArg"}
    /\ Called /\ InvalidInput => Panicked /\ trace = <<>> /\ result = NoResult
    /\ Called /\ TooManyWn => panicMsg = "Wn may be of len 1 or 2"
    /\ Called /\ ~TooManyWn /\ ~FsAnalogConflict =>
          /\ NonPositiveWn => panicMsg = "filter critical frequencies must be greater than 0"
          /\ ~NonPositiveWn /\ UnorderedWn => panicMsg = "Wn[0] must be less than Wn[1]"
          /\ ~NonPositiveWn /\ ~UnorderedWn /\ Negative(args.rp) =>
                panicMsg = "passband ripple (rp) must be positive"
          /\ ~NonPositiveWn /\ ~UnorderedWn /\ ~Negative(args.rp) /\ Negative(args.rs) =>
                panicMsg = "stopband attenuation (rs) must be positive"

C13_Witness ==
    /\ Panicked
    /\ UnorderedWn
    /\ ~NonPositiveWn
    /\ Negative(args.rp)
    /\ panicMsg = "Wn[0] must be less than Wn[1]"


----------------------------------------------------------------------------
(* Properties of the prototype generators (SpecProto) *)

ProtoReturned == Returned /\ entry \in {"buttap_dyn", "cheb1ap_dyn", "cheb2ap_dyn"}
\* the centred index sequence -N+1, -N+3, ..., N-1
Centred(N) == [i \in 1..N |-> -N + 1 + 2 * (i - 1)]

\* C14: for N >= 1 buttap(N) has N poles, no zero and gain 1; pole i is
\* -exp(i*pi*m/(2N)) for the i-th m of -N+1, -N+3, ..., N-1, the exponent has
\* real part 0 and so the pole has magnitude 1.
C14_Buttap ==
    Returned /\ entry = "buttap_dyn" /\ args.order >= 1 =>
        /\ Len(zpk.p) = args.order
        /\ zpk.z = <<>>
        /\ zpk.k = [f |-> "one"]
        /\ \A i \in 1..Len(zpk.p) :
              /\ zpk.p[i].f = "-exp(i*pi*m/(2N))"
              /\ zpk.p[i].re = 0
              /\ zpk.p[i].N = args.order
              /\ zpk.p[i].m = Centred(args.order)[i]

C14_Witness ==
    /\ Returned
    /\ entry = "buttap_dyn"
    /\ args.order = 4
    /\ [i \in 1..4 |-> zpk.p[i].m] = <<-3, -1, 1, 3>>

\* C15: the poles of buttap(N), cheb1ap(N, rp) and cheb2ap(N, rs) come in
\* conjugate pairs: with the pole of index m there is the pole of index -m of
\* the same formula and parameters, no index occurs twice, and the real pole
\* (index 0) occurs exactly when N is odd.
C15_ConjugatePairs ==
    ProtoReturned =>
        LET p == zpk.p
            N == args.order
        IN  /\ \A i \in 1..Len(p) : \E j \in 1..Len(p) : p[j] = [p[i] EXCEPT !.m = -p[i].m]
            /\ \A i, j \in 1..Len(p) : p[i].m = p[j].m => i = j
            /\ (\E i \in 1..Len(p) : p[i].m = 0) <=> N % 2 = 1
            /\ \A i \in 1..Len(p) : p[i].m \in (-N + 1)..(N - 1)

C15_Witness ==
    /\ Returned
    /\ entry = "cheb2ap_dyn"
    /\ args.order = 5
    /\ Len(zpk.p) = 5
    /\ zpk.p[3].m = 0
    /\ zpk.p[1].m = -zpk.p[5].m

\* C16: cheb1ap(0, rp) has no zero, no pole and k = 10^(-rp/20); cheb2ap(0,
\* rs) has no zero, no pole and k = 1, for every rp and rs.
C16_OrderZero ==
    /\ Returned /\ entry = "cheb1ap_dyn" /\ args.order = 0 =>
          zpk = Zpk(<<>>, <<>>, [f |-> "10^(-rp/20)", rp |-> args.rp[1]])
    /\ Returned /\ entry = "cheb2ap_dyn" /\ args.order = 0 =>
          zpk = Zpk(<<>>, <<>>, [f |-> "one"])

C16_Witness ==
    /\ Returned
    /\ entry = "cheb1ap_dyn"
    /\ args.order = 0
    /\ args.rp = Some(Rat(3, 1))
    /\ zpk.k.f = "10^(-rp/20)"


----------------------------------------------------------------------------
(* Properties of the Butterworth designs (SpecDesign) *)

BandOf(a) == UnwrapOr(a.btype, "Bandpass")
OutputOf(a) == UnwrapOr(a.output, "Ba")

\* C17: the digital Butterworth bandpass design of order N with Ba output
\* has 2N zeros and 2N poles and returns b and a of 2N+1 coefficients each.
C17_BaLengths ==
    Returned /\ DigitalArg /\ BandOf(args) = "Bandpass" /\ OutputOf(args) = "Ba" =>
        /\ result.tag = "Ba"
        /\ Len(zpk.z) = 2 * args.order
        /\ Len(zpk.p) = 2 * args.order
        /\ result.val.b.roots = zpk.z
        /\ result.val.a.roots = zpk.p
        /\ result.val.b.len = 2 * args.order + 1
        /\ result.val.a.len = 2 * args.order + 1

C17_Witness ==
    /\ Returned
    /\ args.order = 4
    /\ args.btype = Some("Bandpass")
    /\ args.output = Some("Ba")
    /\ args.analog = Some(FALSE)
    /\ IsSome(args.fs)
    /\ result.val.b.len = 9
    /\ result.val.a.len = 9


\* C18 as stated: every SosFilter returned by a design call of order N has
\* ceil(N/2) second-order sections.
C18_CeilHalfSections ==
    Returned /\ result.tag = "Sos" => result.val.sections = CeilHalf(args.order)

\* C18: a SosFilter returned by a design call of order N has one section per
\* two poles of the designed filter: ceil(N/2) sections for Lowpass and
\* Highpass (N poles), N sections for Bandpass and Bandstop (2N poles).
C18_SectionCount ==
    Returned /\ result.tag = "Sos" =>
        /\ result.val.sections = CeilHalf(Len(zpk.p))
        /\ BandOf(args) \in {"Lowpass", "Highpass"} =>
              Len(zpk.p) = args.order /\ result.val.sections = CeilHalf(args.order)
        /\ BandOf(args) \in {"Bandpass", "Bandstop"} =>
              Len(zpk.p) = 2 * args.order /\ result.val.sections = args.order

C18_Witness ==
    /\ Returned
    /\ args.order = 4
    /\ args.btype = Some("Bandpass")
    /\ args.output = Some("Sos")
    /\ args.analog = Some(FALSE)
    /\ result.tag = "Sos"
    /\ Len(zpk.p) = 8
    /\ result.val.sections = 4


LowpassTwin == DesignZpk([args EXCEPT !.btype = Some("Lowpass")])
HighpassReturned == Returned /\ args.btype = Some("Highpass")

\* C19 as stated: each pole of the digital highpass Butterworth design is the
\* conjugate-reciprocal 1/conj(p) of a pole p of the lowpass design of the
\* same order, frequency and fs.
C19_ReciprocalConjugate ==
    HighpassReturned /\ DigitalArg /\ result.tag = "Zpk" =>
        \A i \in DOMAIN zpk.p : \E j \in DOMAIN LowpassTwin.p :
            Value(zpk.p[i]) = RecipConj(Value(LowpassTwin.p[j]))

\* C19: the highpass and the lowpass Butterworth design of the same order,
\* frequency and fs have N poles each, the i-th highpass pole is the complex
\* conjugate of the i-th lowpass pole, so that the two pole sets coincide; in
\* a digital design every pole lies inside the unit circle and no
\* conjugate-reciprocal of a lowpass pole does.
C19_ConjugateImages ==
    HighpassReturned =>
        LET hp == zpk.p
            lp == LowpassTwin.p
        IN  /\ zpk = DesignZpk(args)
            /\ Len(hp) = args.order
            /\ Len(lp) = args.order
            /\ \A i \in DOMAIN hp : Value(hp[i]) = Conj(Value(lp[i]))
            /\ \A i \in DOMAIN hp : \E j \in DOMAIN lp : Value(hp[i]) = Value(lp[j])
            /\ DigitalArg =>
                  \A i \in DOMAIN hp :
                      /\ InsideUnitCircle(Value(hp[i]))
                      /\ InsideUnitCircle(Value(lp[i]))
                      /\ ~InsideUnitCircle(RecipConj(Value(lp[i])))

C19_Witness ==
    /\ HighpassReturned
    /\ DigitalArg
    /\ args.order = 4
    /\ args.output = Some("Zpk")
    /\ IsSome(args.fs)
    /\ result.tag = "Zpk"
    /\ Value(zpk.p[1]) = Conj(Value(LowpassTwin.p[1]))
    /\ Value(zpk.p[1]) = Value(LowpassTwin.p[4])


----------------------------------------------------------------------------
(* Properties of convolve (SpecConv) *)

Min(a, b) == IF a <= b THEN a ELSE b
\* the values the documentation of ConvolveMode and the tests expect
ExpectedConv(x, h, mode) ==
    LET full == FullConv(x, h)
        lo == Min(Len(x), Len(h))
        hi == Max(Len(x), Len(h))
    IN  CASE mode = "Full" -> full
          [] mode = "Valid" -> [k \in 1..(hi - lo + 1) |-> full[k + lo - 1]]
          [] mode = "Same" -> [k \in 1..Len(x) |-> full[k + (Len(h) - 1) \div 2]]

\* C20: convolve(in1, in2, mode) on 1-D inputs returns the discrete linear
\* convolution in every mode without aborting: all len1+len2-1 values for
\* Full, the max-min+1 fully overlapping values for Valid, the len1 centred
\* values for Same.
C20_ConvolveAllModes ==
    entry = "convolve" /\ pc \in {"returned", "panicked"} =>
        /\ ~Panicked
        /\ result.tag = "Array"
        /\ result.val = ExpectedConv(args.in1, args.in2, args.mode)


----------------------------------------------------------------------------
(* Properties of the axis normalisation (SpecAxis) *)

Done == pc \in {"returned", "panicked"}
\* -N <= axis < N
InRange(axis, n) == -n <= axis /\ axis < n
Selected(axis, n) == IF IsNone(axis) THEN n - 1
                     ELSE IF Unwrap(axis) >= 0 THEN Unwrap(axis) ELSE n + Unwrap(axis)

C29_AxisNeverPanics ==
    Done /\ entry \in {"check_and_get_axis_st", "check_and_get_axis_dyn"} =>
        /\ ~Panicked
        /\ result.tag \in {"Ok", "Err"}
        /\ result.tag = "Ok" => 0 <= result.val.i /\ result.val.i < args.ndim


----------------------------------------------------------------------------
(* Properties of lfilter (SpecFilter) *)

RECURSIVE FirSum(_, _, _, _, _)
\* sum over k in 0..kmax of (b[k] / a0) * x[n - k], indices from 0
FirSum(b, a0, x, n, kmax) ==
    IF kmax < 0 THEN 0
    ELSE (b[kmax + 1] \div a0) * x[n - kmax + 1] + FirSum(b, a0, x, n, kmax - 1)
FirLane(b, a0, x) ==
    [i \in 1..Len(x) |-> FirSum(b, a0, x, i - 1, Min(i - 1, Len(b) - 1))]
LfilterDone == Done /\ entry = "lfilter"
AxisValid(a) == IsNone(a.axis) \/ InRange(Unwrap(a.axis), a.x.ndim)

\* C21: for a of length 1 with a[0] # 0, zi = None and a valid axis, lfilter
\* returns Ok((y, None)), y has the shape of x and every lane of y along the
\* axis is y[n] = sum over k in 0..min(n, len(b)-1) of (b[k]/a[0]) * x[n-k]
\* of the same lane of x.
C21_FirFilter ==
    LfilterDone /\ Len(args.a) = 1 /\ args.a # <<0>> /\ args.zi = None
      /\ args.x.ndim >= 1 /\ AxisValid(args) =>
        /\ Returned
        /\ result.tag = "Ok"
        /\ result.val.zf = None
        /\ result.val.y.ndim = args.x.ndim
        /\ Shape(result.val.y) = Shape(args.x)
        /\ LET ax == Selected(args.axis, args.x.ndim)
               xl == Lanes(args.x, ax)
               yl == Lanes(result.val.y, ax)
           IN  /\ Len(yl) = Len(xl)
               /\ \A l \in DOMAIN xl : yl[l] = FirLane(args.b, args.a[1], xl[l])

C21_Witness ==
    /\ Returned
    /\ entry = "lfilter"
    /\ args.b = <<2, 1>>
    /\ args.a = <<2>>
    /\ args.x = Array2(<<(<<1, 2>>), (<<2, 2>>)>>)
    /\ args.axis = Some(0)
    /\ args.zi = None
    /\ result.val.y = Array2(<<(<<1, 2>>), (<<2, 2>>)>>)

\* C22: lfilter panics (not implemented) whenever zi is Some(..) and whenever
\* a.len() > 1; it never returns a result computed while ignoring a supplied
\* zi.
C22_ZiNeverIgnored ==
    LfilterDone /\ (IsSome(args.zi) \/ Len(args.a) > 1) =>
        /\ Panicked
        /\ panicMsg = "not implemented"


----------------------------------------------------------------------------
(* Properties of axis_slice (SpecSlice) *)

OutOfBounds(i, len) == IsSome(i) /\ (Unwrap(i) > len \/ Unwrap(i) < -len)
SliceDone == Done /\ entry = "axis_slice" /\ ~args.dyn
AxisRefused == IsSome(args.axis) /\ ~InRange(Unwrap(args.axis), args.a.ndim)
BoundsExceeded ==
    /\ args.a.ndim >= 1
    /\ ~AxisRefused
    /\ LET len == AxisLen(args.a, Selected(args.axis, args.a.ndim))
       IN  OutOfBounds(args.start, len) \/ OutOfBounds(args.end, len)

\* C24: axis_slice returns Err when the axis is out of bounds and also when
\* start or end is out of bounds for the sliced axis; it does not panic.
C24_SliceReturnsErr ==
    SliceDone /\ (AxisRefused \/ BoundsExceeded) =>
        /\ ~Panicked
        /\ result.tag = "Err"


----------------------------------------------------------------------------
(* Root counts of the digital designs (SpecDesign) and the zeros of cheb2ap *)
(* (SpecProto)                                                             *)

RootCount(a) == IF BandOf(a) \in {"Lowpass", "Highpass"} THEN a.order ELSE 2 * a.order
AtMinusOne(zs) == {i \in DOMAIN zs : zs[i] = [f |-> "minus one"]}

\* C25: a digital Butterworth design that returns Zpk has as many zeros as
\* poles: N and N for Lowpass and Highpass, 2N and 2N for Bandpass and
\* Bandstop; the band transform leaves N resp. 2N poles and the bilinear step
\* appends zeros at -1 until the counts match.
C25_ZerosMatchPoles ==
    Returned /\ DigitalArg /\ result.tag = "Zpk" =>
        /\ result.val = zpk
        /\ Len(zpk.p) = RootCount(args)
        /\ Len(zpk.z) = Len(zpk.p)
        /\ \A i \in DOMAIN zpk.p : zpk.p[i].f = "bilinear"
        /\ \A i \in DOMAIN zpk.z : zpk.z[i].f \in {"bilinear", "minus one"}
        /\ LET analogZeros == Cardinality({i \in DOMAIN zpk.z : zpk.z[i].f = "bilinear"})
           IN  Cardinality(AtMinusOne(zpk.z)) = Len(zpk.p) - analogZeros

C25_Witness ==
    /\ Returned
    /\ DigitalArg
    /\ args.order = 4
    /\ args.btype = Some("Bandpass")
    /\ result.tag = "Zpk"
    /\ Len(zpk.z) = 8
    /\ Len(zpk.p) = 8
    /\ Cardinality(AtMinusOne(zpk.z)) = 4
    /\ \A i \in 1..4 : zpk.z[i] = [f |-> "bilinear", of |-> [f |-> "origin"]]

Cheb2Returned == Returned /\ entry = "cheb2ap_dyn" /\ args.order >= 1
Without(s, v) == SelectSeq(s, LAMBDA m : m # v)

\* C26: for N >= 1 cheb2ap(N, rs) returns N poles and one zero for every
\* index of -N+1, -N+3, ..., N-1 except m = 0: N zeros for even N, N-1 for
\* odd N, the indices symmetric under m -> -m, none computed from sin(0).
C26_Cheb2Zeros ==
    Cheb2Returned =>
        LET N == args.order
            zm == [i \in DOMAIN zpk.z |-> zpk.z[i].m]
        IN  /\ Len(zpk.p) = N
            /\ [i \in DOMAIN zpk.p |-> zpk.p[i].m] = Centred(N)
            /\ zm = Without(Centred(N), 0)
            /\ Len(zpk.z) = IF N % 2 = 0 THEN N ELSE N - 1
            /\ \A i \in DOMAIN zm : zm[i] # 0 /\ \E j \in DOMAIN zm : zm[j] = -zm[i]
            /\ \A i \in DOMAIN zpk.z : zpk.z[i].N = N

C26_Witness ==
    /\ Cheb2Returned
    /\ args.order = 5
    /\ Len(zpk.p) = 5
    /\ [i \in DOMAIN zpk.z |-> zpk.z[i].m] = <<-4, -2, 2, 4>>


----------------------------------------------------------------------------
(* Properties of FiltFiltPadType::ext (SpecExt) *)

ExtDone == Done /\ entry = "ext" /\ args.n >= 1 /\ args.x.ndim >= 1 /\ AxisValid(args)
ExtAxis == Selected(args.axis, args.x.ndim)
ExtLen == AxisLen(args.x, ExtAxis)

\* C27: ext of Odd, Even and Const with a valid axis and n >= 1 on an array
\* of length L along the axis returns Err(InvalidArg{arg: "n"}) when n >= L;
\* when n < L it returns an array of length L + 2n along the axis, of the
\* same lengths on the other axes, whose middle L entries along the axis are
\* x.
C27_ExtShape ==
    ExtDone =>
        /\ ~Panicked
        /\ IF args.n >= ExtLen
           THEN result.tag = "Err" /\ result.val.kind = "InvalidArg" /\ result.val.arg = "n"
           ELSE /\ result.tag = "Ok"
                /\ result.val.ndim = args.x.ndim
                /\ Shape(result.val) = [Shape(args.x) EXCEPT ![ExtAxis + 1] = ExtLen + 2 * args.n]
                /\ SliceAxis(result.val, ExtAxis,
                             [k \in 1..ExtLen |-> args.n + k - 1]) = args.x

C27_Witness ==
    /\ ExtDone
    /\ args.self = "Const"
    /\ args.x = Array2(<<(<<0, 1, 2>>), (<<2, 1, 0>>)>>)
    /\ args.axis = Some(0)
    /\ args.n = 1
    /\ result.tag = "Ok"
    /\ result.val = Array2(<<(<<0, 1, 2>>), (<<0, 1, 2>>), (<<2, 1, 0>>), (<<2, 1, 0>>)>>)

\* C28: the odd extension with 1 <= n < L of a lane x[0..L-1] along the axis
\* is out[i] = 2*x[0] - x[n-i] for 0 <= i < n, out[n+j] = x[j] for 0 <= j < L
\* and out[n+L+j] = 2*x[L-1] - x[L-2-j] for 0 <= j < n.
C28_OddExtension ==
    ExtDone /\ args.self = "Odd" /\ args.n < ExtLen =>
        /\ result.tag = "Ok"
        /\ LET n == args.n
               L == ExtLen
               xl == Lanes(args.x, ExtAxis)
               ol == Lanes(result.val, ExtAxis)
           IN  /\ Len(ol) = Len(xl)
               /\ \A l \in DOMAIN xl :
                     /\ Len(ol[l]) = L + 2 * n
                     /\ \A i \in 0..(n - 1) : ol[l][i + 1] = 2 * xl[l][1] - xl[l][n - i + 1]
                     /\ \A j \in 0..(L - 1) : ol[l][n + j + 1] = xl[l][j + 1]
                     /\ \A j \in 0..(n - 1) :
                           ol[l][n + L + j + 1] = 2 * xl[l][L] - xl[l][L - 2 - j + 1]

C28_Witness ==
    /\ ExtDone
    /\ args.self = "Odd"
    /\ args.x = Array1(<<0, 1, 2>>)
    /\ args.n = 2
    /\ args.axis = None
    /\ result.tag = "Ok"
    /\ result.val = Array1(<<-2, -1, 0, 1, 2, 3, 4>>)

====
